---- MODULE Spec2Model ----
(***************************************************************************)
(* Model of src/main.rs: the line-oriented snippet parser                  *)
(* (parse_yaml_lines), the documentation annotation parser                 *)
(* (parse_input_documentation) and the default value formatter             *)
(* (format_default_value).  Text is modelled by TLA+ strings, read one     *)
(* character at a time with SubSeq; the three regular expressions are      *)
(* modelled by what the regex crate's leftmost-first matching returns.     *)
(***************************************************************************)
EXTENDS Integers, Sequences, FiniteSets, TLC

VARIABLES
    pc,            \* position of the running function
    yaml_text,     \* parse_yaml_lines: its argument
    lines,         \* parse_yaml_lines: yaml_text.lines().collect()
    line_iter,     \* parse_yaml_lines: number of lines the iterator has yielded
    task_summary,  \* parse_yaml_lines: locals, then fields of ParsedTaskInfo
    task_name,
    task_version,
    parameters,
    returned,      \* parse_yaml_lines: FALSE until it returns Ok(..)
    yaml_name,     \* parse_input_documentation: arguments
    documentation,
    doc_result,    \* parse_input_documentation: Option<ProcessedParameter>
    value,         \* format_default_value: arguments
    base_type,
    is_enum,
    fmt_result     \* format_default_value: the returned String

vars == <<pc, yaml_text, lines, line_iter, task_summary, task_name, task_version,
          parameters, returned, yaml_name, documentation, doc_result,
          value, base_type, is_enum, fmt_result>>

-----------------------------------------------------------------------------
(* Option<T> *)

None == [some |-> FALSE]

Some(v) == [some |-> TRUE, v |-> v]

is_some(o) == o.some

is_none(o) == ~o.some

-----------------------------------------------------------------------------
(* Characters and the str methods the code calls *)

\* the characters i..j of s that exist (s[i - 1 .. j] of Rust, clamped)
Sub(s, i, j) ==
    LET a == IF i < 1 THEN 1 ELSE i
        b == IF j > Len(s) THEN Len(s) ELSE j
    IN  IF a > b THEN "" ELSE SubSeq(s, a, b)

Char(s, i) == Sub(s, i, i)

From(s, i) == Sub(s, i, Len(s))

\* char::is_whitespace, and \s of the regex crate, on the modelled alphabet
Whitespace == {" ", "\t"}

LowerLetters == "abcdefghijklmnopqrstuvwxyz"

UpperLetters == "ABCDEFGHIJKLMNOPQRSTUVWXYZ"

Digits == "0123456789"

RECURSIVE IndexIn(_, _, _)
\* position of the character c in s at or after i, 0 when there is none
IndexIn(s, c, i) ==
    IF i > Len(s) THEN 0
    ELSE IF Char(s, i) = c THEN i
    ELSE IndexIn(s, c, i + 1)

LowerSet == {Char(LowerLetters, i) : i \in 1..Len(LowerLetters)}

UpperSet == {Char(UpperLetters, i) : i \in 1..Len(UpperLetters)}

DigitSet == {Char(Digits, i) : i \in 1..Len(Digits)}

is_lowercase(c) == c \in LowerSet

is_uppercase(c) == c \in UpperSet

is_digit(c) == c \in DigitSet

is_alphanumeric(c) == is_lowercase(c) \/ is_uppercase(c) \/ is_digit(c)

\* \w of the regex crate
is_word(c) == is_alphanumeric(c) \/ c = "_"

char_to_lowercase(c) ==
    IF is_uppercase(c) THEN Char(LowerLetters, IndexIn(UpperLetters, c, 1)) ELSE c

char_to_uppercase(c) ==
    IF is_lowercase(c) THEN Char(UpperLetters, IndexIn(LowerLetters, c, 1)) ELSE c

RECURSIVE to_lowercase(_)
to_lowercase(s) ==
    IF s = "" THEN "" ELSE char_to_lowercase(Char(s, 1)) \o to_lowercase(From(s, 2))

RECURSIVE SkipWs(_, _)
\* first position at or after i that holds no whitespace (Len(s) + 1 at the end)
SkipWs(s, i) ==
    IF i <= Len(s) /\ Char(s, i) \in Whitespace THEN SkipWs(s, i + 1) ELSE i

RECURSIVE SkipWsBack(_, _)
\* last position at or before i that holds no whitespace (0 when there is none)
SkipWsBack(s, i) ==
    IF i >= 1 /\ Char(s, i) \in Whitespace THEN SkipWsBack(s, i - 1) ELSE i

trim_start(s) == From(s, SkipWs(s, 1))

trim_end(s) == Sub(s, 1, SkipWsBack(s, Len(s)))

trim(s) == trim_end(trim_start(s))

starts_with(s, p) == Len(s) >= Len(p) /\ Sub(s, 1, Len(p)) = p

StartsWithAt(s, i, p) == Sub(s, i, i + Len(p) - 1) = p

contains(s, c) == IndexIn(s, c, 1) > 0

\* str::strip_prefix
strip_prefix(s, p) == IF starts_with(s, p) THEN Some(From(s, Len(p) + 1)) ELSE None

RECURSIVE replace(_, _, _)
\* str::replace of the one-character pattern c by the text by
replace(s, c, by) ==
    IF s = "" THEN ""
    ELSE (IF Char(s, 1) = c THEN by ELSE Char(s, 1)) \o replace(From(s, 2), c, by)

RECURSIVE split(_, _)
\* str::split on the character c: one token more than there are separators
split(s, c) ==
    LET i == IndexIn(s, c, 1)
    IN  IF i = 0 THEN <<s>>
        ELSE <<Sub(s, 1, i - 1)>> \o split(From(s, i + 1), c)

RECURSIVE SkipChar(_, _, _)
SkipChar(s, c, i) ==
    IF i <= Len(s) /\ Char(s, i) = c THEN SkipChar(s, c, i + 1) ELSE i

RECURSIVE SkipCharBack(_, _, _)
SkipCharBack(s, c, i) ==
    IF i >= 1 /\ Char(s, i) = c THEN SkipCharBack(s, c, i - 1) ELSE i

\* str::trim_matches of one character
trim_matches(s, c) ==
    LET a == SkipChar(s, c, 1)
    IN  IF a > Len(s) THEN "" ELSE Sub(s, a, SkipCharBack(s, c, Len(s)))

\* str::lines: split at "\n", a final empty piece is no line, a trailing
\* "\r" of a line is dropped
strip_cr(l) ==
    IF Len(l) > 0 /\ Char(l, Len(l)) = "\r" THEN Sub(l, 1, Len(l) - 1) ELSE l

str_lines(text) ==
    LET parts == split(text, "\n")
        kept == IF parts[Len(parts)] = "" THEN SubSeq(parts, 1, Len(parts) - 1)
                ELSE parts
    IN  [i \in 1..Len(kept) |-> strip_cr(kept[i])]

-----------------------------------------------------------------------------
(* i32::from_str *)

I32Max == 2147483647

I32MaxDiv10 == I32Max \div 10

RECURSIVE ParseDigits(_, _, _, _)
\* the checked accumulation of from_str_radix: acc holds the signed value
\* read so far, FALSE stands for Err (an invalid digit or an overflow)
ParseDigits(s, i, acc, negative) ==
    IF i > Len(s) THEN TRUE
    ELSE LET c == Char(s, i)
             d == IndexIn(Digits, c, 1) - 1
         IN  IF ~is_digit(c) THEN FALSE
             ELSE IF negative
             THEN IF acc < -I32MaxDiv10 \/ (acc = -I32MaxDiv10 /\ d > 8) THEN FALSE
                  ELSE ParseDigits(s, i + 1, acc * 10 - d, negative)
             ELSE IF acc > I32MaxDiv10 \/ (acc = I32MaxDiv10 /\ d > 7) THEN FALSE
                  ELSE ParseDigits(s, i + 1, acc * 10 + d, negative)

RECURSIVE AllDigits(_, _)
AllDigits(s, i) == i > Len(s) \/ (is_digit(Char(s, i)) /\ AllDigits(s, i + 1))

\* parse_i32_is_ok without the overflow check, as a wider integer type parses
parse_unbounded_is_ok(s) ==
    IF s = "" THEN FALSE
    ELSE IF Char(s, 1) \in {"+", "-"} THEN Len(s) > 1 /\ AllDigits(s, 2)
    ELSE AllDigits(s, 1)

\* s.parse::<i32>().is_ok()
parse_i32_is_ok(s) ==
    IF s = "" THEN FALSE
    ELSE IF Char(s, 1) \in {"+", "-"}
    THEN Len(s) > 1 /\ ParseDigits(s, 2, 0, Char(s, 1) = "-")
    ELSE ParseDigits(s, 1, 0, FALSE)

-----------------------------------------------------------------------------
(* heck::ToPascalCase *)

\* heck's capitalize: the first character in upper case, the rest in lower
capitalize(w) ==
    IF w = "" THEN "" ELSE char_to_uppercase(Char(w, 1)) \o to_lowercase(From(w, 2))

RECURSIVE PascalScan(_, _, _, _)
\* heck's transform over one alphanumeric run: a word ends before an upper
\* case letter that follows a lower case one, and before the last upper
\* case letter of a run of them that a lower case letter follows
PascalScan(word, i, init, mode) ==
    IF i > Len(word) THEN ""
    ELSE IF i = Len(word) THEN capitalize(From(word, init))
    ELSE LET c == Char(word, i)
             next == Char(word, i + 1)
             next_mode == IF is_lowercase(c) THEN "Lowercase"
                          ELSE IF is_uppercase(c) THEN "Uppercase"
                          ELSE mode
         IN  IF next_mode = "Lowercase" /\ is_uppercase(next)
             THEN capitalize(Sub(word, init, i))
                      \o PascalScan(word, i + 1, i + 1, "Boundary")
             ELSE IF mode = "Uppercase" /\ is_uppercase(c) /\ is_lowercase(next)
             THEN capitalize(Sub(word, init, i - 1))
                      \o PascalScan(word, i + 1, i, "Boundary")
             ELSE PascalScan(word, i + 1, init, next_mode)

RECURSIVE AlnumEnd(_, _)
\* end of the alphanumeric run that starts at i (i - 1 when it is empty)
AlnumEnd(s, i) ==
    IF i <= Len(s) /\ is_alphanumeric(Char(s, i)) THEN AlnumEnd(s, i + 1) ELSE i - 1

RECURSIVE to_pascal_case(_)
to_pascal_case(s) ==
    IF s = "" THEN ""
    ELSE LET e == AlnumEnd(s, 1)
         IN  PascalScan(Sub(s, 1, e), 1, 1, "Boundary")
                 \o to_pascal_case(From(s, e + 2))

-----------------------------------------------------------------------------
\* DOC_METADATA_RE, in three pieces:
\*   ^\s*([^.]+?)\s*\.\s*([^.]+?)\s*\.
\*   (?:(?:\s*Default:\s*(.+?)\.?$)|(?:(.*?)(?:\.\s*Default:\s*(.+?))?\s*))
\*   \.?$

\* \s*([^.]+?)\s* over the whole of seg, the text before a dot: the greedy
\* \s* gives one character back when seg is blank, the lazy group stops
\* where only whitespace is left
SegmentGroup(seg) ==
    LET a == SkipWs(seg, 1)
        start == IF a > Len(seg) THEN Len(seg) ELSE a
        b == SkipWsBack(seg, Len(seg))
        end == IF b < start THEN start ELSE b
    IN  Sub(seg, start, end)

\* \s*\.?$ from position i of s
TailMatches(s, i) ==
    LET j == SkipWs(s, i)
    IN  j > Len(s) \/ (j = Len(s) /\ Char(s, j) = ".")

RECURSIVE LazyUntilTail(_, _, _)
\* end of the lazy (.+?) that starts at i, tried from length e - i + 1 on,
\* when \s*\.?$ must follow it: 0 when no length does
LazyUntilTail(s, i, e) ==
    IF e > Len(s) THEN 0
    ELSE IF TailMatches(s, e + 1) THEN e
    ELSE LazyUntilTail(s, i, e + 1)

\* \s*Default:\s*(.+?)\.?$ from position i of s: Some(group 3) or None.
\* Nothing but \.?$ may follow the lazy group, so it runs to the end of
\* the text, less one final dot when a character is left before it.
DefaultLast(s, i) ==
    LET a == SkipWs(s, i)
        b == a + Len("Default:")
        c == SkipWs(s, b)
        start == IF c > Len(s) THEN Len(s) ELSE c
        end == IF Len(s) > start /\ Char(s, Len(s)) = "." THEN Len(s) - 1 ELSE Len(s)
    IN  IF StartsWithAt(s, a, "Default:") /\ b <= Len(s)
        THEN Some(Sub(s, start, end))
        ELSE None

\* (?:\.\s*Default:\s*(.+?))\s*\.?$ from position i of s: Some(group 5) or None
DefaultAfterDescription(s, i) ==
    LET a == SkipWs(s, i + 1)
        b == a + Len("Default:")
        c == SkipWs(s, b)
        start == IF c > Len(s) THEN Len(s) ELSE c
        end == LazyUntilTail(s, start, start)
    IN  IF i <= Len(s) /\ Char(s, i) = "." /\ StartsWithAt(s, a, "Default:")
           /\ b <= Len(s) /\ end > 0
        THEN Some(Sub(s, start, end))
        ELSE None

RECURSIVE DescriptionThenDefault(_, _, _)
\* (.*?)(?:\.\s*Default:\s*(.+?))?\s*\.?$ from position i of s, the lazy
\* group 4 tried from the end position e on; the optional group is tried
\* before it is skipped
DescriptionThenDefault(s, i, e) ==
    LET g5 == DefaultAfterDescription(s, e + 1)
    IN  IF is_some(g5) THEN [g4 |-> Sub(s, i, e), g5 |-> g5]
        ELSE IF TailMatches(s, e + 1) THEN [g4 |-> Sub(s, i, e), g5 |-> None]
        ELSE DescriptionThenDefault(s, i, e + 1)

\* DOC_METADATA_RE.captures(doc): None, or Some of the five groups
DOC_METADATA_RE(doc) ==
    LET d1 == IndexIn(doc, ".", 1)
        d2 == IF d1 = 0 THEN 0 ELSE IndexIn(doc, ".", d1 + 1)
    IN  IF d1 < 2 \/ d2 < d1 + 2 THEN None
        ELSE LET g1 == SegmentGroup(Sub(doc, 1, d1 - 1))
                 g2 == SegmentGroup(Sub(doc, d1 + 1, d2 - 1))
                 g3 == DefaultLast(doc, d2 + 1)
                 alt == DescriptionThenDefault(doc, d2 + 1, d2)
             IN  IF is_some(g3)
                 THEN Some([g1 |-> Some(g1), g2 |-> Some(g2), g3 |-> g3,
                            g4 |-> None, g5 |-> None])
                 ELSE Some([g1 |-> Some(g1), g2 |-> Some(g2), g3 |-> None,
                            g4 |-> Some(alt.g4), g5 |-> alt.g5])

-----------------------------------------------------------------------------
(* format_default_value *)

SpecialDefaults ==
    {"$(BuildConfiguration)", "$(Build.ArtifactStagingDirectory)/*.nupkg",
     "**/*.csproj", "$(Build.ArtifactStagingDirectory)"}

\* format_default_value with the table looked up after the type rules
format_default_value_types_first(v, base, enum) ==
    IF base = "string" THEN "\"" \o replace(v, "\"", "\\\"") \o "\""
    ELSE IF base = "bool" THEN to_lowercase(v)
    ELSE IF enum THEN base \o "." \o to_pascal_case(trim_matches(v, "'"))
    ELSE IF v \in SpecialDefaults THEN "\"" \o v \o "\""
    ELSE v

\* format_default_value with the enum rule tried before the bool rule, and
\* the text of a string left as it is between the quotes
format_default_value_enum_first(v, base, enum) ==
    IF v \in SpecialDefaults THEN "\"" \o v \o "\""
    ELSE IF base = "string" THEN "\"" \o v \o "\""
    ELSE IF enum THEN base \o "." \o to_pascal_case(trim_matches(v, "'"))
    ELSE IF base = "bool" THEN to_lowercase(v)
    ELSE v

format_default_value(v, base, enum) ==
    IF v = "$(BuildConfiguration)" THEN "\"$(BuildConfiguration)\""
    ELSE IF v = "$(Build.ArtifactStagingDirectory)/*.nupkg"
    THEN "\"$(Build.ArtifactStagingDirectory)/*.nupkg\""
    ELSE IF v = "**/*.csproj" THEN "\"**/*.csproj\""
    ELSE IF v = "$(Build.ArtifactStagingDirectory)"
    THEN "\"$(Build.ArtifactStagingDirectory)\""
    ELSE IF base = "string" THEN "\"" \o replace(v, "\"", "\\\"") \o "\""
    ELSE IF base = "bool" THEN to_lowercase(v)
    ELSE IF enum THEN base \o "." \o to_pascal_case(trim_matches(v, "'"))
    ELSE v

-----------------------------------------------------------------------------
(* parse_input_documentation *)

\* caps.get(n).map_or("", |m| m.as_str()).trim()
GroupText(g) == IF is_some(g) THEN trim(g.v) ELSE ""

\* caps.get(3).or_else(|| caps.get(5)).map(|m| m.as_str().trim().to_string())
default_value_str(caps) ==
    IF is_some(caps.g3) THEN Some(trim(caps.g3.v))
    ELSE IF is_some(caps.g5) THEN Some(trim(caps.g5.v))
    ELSE None

final_description(name, caps) ==
    IF GroupText(caps.g4) = "" /\ is_some(default_value_str(caps))
    THEN "Details for " \o name
    ELSE GroupText(caps.g4)

\* is_enum_type without the test of the leading quote
is_enum_type_any_bar(type_options) == contains(type_options, "|")

is_enum_type(type_options) == contains(type_options, "|") /\ starts_with(type_options, "'")

enum_options(type_options) ==
    IF is_enum_type(type_options)
    THEN LET tokens == split(type_options, "|")
         IN  Some([i \in 1..Len(tokens) |-> replace(trim(tokens[i]), "'", "")])
    ELSE None

base_csharp_type(name, type_options, default) ==
    IF is_enum_type(type_options) THEN to_pascal_case(name)
    ELSE IF type_options = "boolean" THEN "bool"
    ELSE IF type_options = "string"
    THEN IF is_some(default)
         THEN IF parse_i32_is_ok(default.v) THEN "int" ELSE "string"
         ELSE "string"
    ELSE "string"

is_required(required_status) == required_status = "Required"

is_conditionally_required(required_status) == starts_with(required_status, "Required when")

is_optional(required_status) == required_status = "Optional"

\* is_nullable without the test of the default
is_nullable_with_default(required_status, base, default) ==
    is_optional(required_status) \/ is_conditionally_required(required_status)
        \/ base = "string"

is_nullable(required_status, base, default) ==
    (is_optional(required_status) \/ is_conditionally_required(required_status)
        \/ base = "string")
    /\ is_none(default)

csharp_type(base, nullable) == IF nullable THEN base \o "?" ELSE base

getter_default_arg(default, base, nullable, options) ==
    IF ~nullable /\ is_some(default)
    THEN Some(format_default_value(default.v, base, is_some(options)))
    ELSE None

parse_input_documentation(name, doc) ==
    LET m == DOC_METADATA_RE(doc)
    IN  IF is_none(m) THEN None
        ELSE LET caps == m.v
                 type_options == GroupText(caps.g1)
                 required_status == GroupText(caps.g2)
                 default == default_value_str(caps)
                 options == enum_options(type_options)
                 base == base_csharp_type(name, type_options, default)
                 nullable == is_nullable(required_status, base, default)
             IN  Some([yaml_name |-> name,
                       csharp_name |-> to_pascal_case(name),
                       description |-> final_description(name, caps),
                       csharp_type |-> csharp_type(base, nullable),
                       enum_options |-> options,
                       is_nullable |-> nullable,
                       getter_default_arg |->
                           getter_default_arg(default, base, nullable, options),
                       base_csharp_type |-> base])

-----------------------------------------------------------------------------
(* TASK_LINE_RE and INPUT_LINE_RE *)

RECURSIVE WordEnd(_, _)
\* end of the run of \w characters that starts at i (i - 1 when it is empty)
WordEnd(s, i) ==
    IF i <= Len(s) /\ is_word(Char(s, i)) THEN WordEnd(s, i + 1) ELSE i - 1

RECURSIVE DigitEnd(_, _)
\* end of the run of \d characters that starts at i (i - 1 when it is empty)
DigitEnd(s, i) ==
    IF i <= Len(s) /\ is_digit(Char(s, i)) THEN DigitEnd(s, i + 1) ELSE i - 1

\* TASK_LINE_RE: ^- task:\s*(?<TaskName>\w+)@(?<TaskVersion>\d+)$
TASK_LINE_RE(s) ==
    LET a == SkipWs(s, Len("- task:") + 1)
        e == WordEnd(s, a)
        v == DigitEnd(s, e + 2)
    IN  IF starts_with(s, "- task:") /\ e >= a /\ Char(s, e + 1) = "@"
           /\ v >= e + 2 /\ v = Len(s)
        THEN Some([TaskName |-> Sub(s, a, e), TaskVersion |-> Sub(s, e + 2, v)])
        ELSE None

MinIndent == 3

\* INPUT_LINE_RE:
\*   ^ {3,}(?:#\s*)?(?<InputName>\w+):\s*.*?#\s*(?<Documentation>.*)$
\* the lazy .*? stops at the first # after the colon
INPUT_LINE_RE(line) ==
    LET a == SkipChar(line, " ", 1)
        b == IF Char(line, a) = "#" THEN SkipWs(line, a + 1) ELSE a
        e == WordEnd(line, b)
        h == IndexIn(line, "#", e + 2)
    IN  IF a - 1 >= MinIndent /\ e >= b /\ Char(line, e + 1) = ":" /\ h > 0
        THEN Some([InputName |-> Sub(line, b, e),
                   Documentation |-> From(line, SkipWs(line, h + 1))])
        ELSE None

-----------------------------------------------------------------------------
(* parse_yaml_lines, one action per rule of the function *)

\* The locals of lines 153-159, and rule 1: the first line is taken from
\* the iterator and dropped.
IgnoreFirstLine ==
    /\ pc = "start"
    /\ lines' = str_lines(yaml_text)
    /\ parameters' = <<>>
    /\ task_summary' = "N/A"
    /\ task_name' = "UnknownTask"
    /\ task_version' = "0"
    /\ line_iter' = IF Len(lines') > 0 THEN 1 ELSE 0
    /\ pc' = "summary"
    /\ UNCHANGED <<yaml_text, returned, yaml_name, documentation, doc_result,
                   value, base_type, is_enum, fmt_result>>

\* TaskSummary with the summary stored as it stands after the marker
TaskSummaryUntrimmed ==
    /\ pc = "summary"
    /\ IF line_iter < Len(lines)
       THEN LET summary == strip_prefix(trim(lines[line_iter + 1]), "#")
            IN  /\ task_summary' = IF is_some(summary) THEN summary.v ELSE task_summary
                /\ line_iter' = line_iter + 1
                /\ pc' = "task"
                /\ UNCHANGED returned
       ELSE /\ returned' = TRUE
            /\ pc' = "done"
            /\ UNCHANGED <<task_summary, line_iter>>
    /\ UNCHANGED <<yaml_text, lines, task_name, task_version, parameters,
                   yaml_name, documentation, doc_result,
                   value, base_type, is_enum, fmt_result>>

\* Rule 2: the task summary, or the early return of line 174.
TaskSummary ==
    /\ pc = "summary"
    /\ IF line_iter < Len(lines)
       THEN LET summary == strip_prefix(trim(lines[line_iter + 1]), "#")
            IN  /\ task_summary' = IF is_some(summary) THEN trim(summary.v)
                                   ELSE task_summary
                /\ line_iter' = line_iter + 1
                /\ pc' = "task"
                /\ UNCHANGED returned
       ELSE /\ returned' = TRUE
            /\ pc' = "done"
            /\ UNCHANGED <<task_summary, line_iter>>
    /\ UNCHANGED <<yaml_text, lines, task_name, task_version, parameters,
                   yaml_name, documentation, doc_result,
                   value, base_type, is_enum, fmt_result>>

\* TaskDefinition returning the defaults when the line does not match
TaskDefinitionOrReturn ==
    /\ pc = "task"
    /\ IF line_iter < Len(lines) /\ is_some(TASK_LINE_RE(trim(lines[line_iter + 1])))
       THEN LET caps == TASK_LINE_RE(trim(lines[line_iter + 1]))
            IN  /\ task_name' = caps.v.TaskName
                /\ task_version' = caps.v.TaskVersion
                /\ line_iter' = line_iter + 1
                /\ pc' = "inputs"
                /\ UNCHANGED returned
       ELSE /\ returned' = TRUE
            /\ pc' = "done"
            /\ UNCHANGED <<task_name, task_version, line_iter>>
    /\ UNCHANGED <<yaml_text, lines, task_summary, parameters,
                   yaml_name, documentation, doc_result,
                   value, base_type, is_enum, fmt_result>>

\* Rule 3: the task definition, or the early return of line 189.
TaskDefinition ==
    /\ pc = "task"
    /\ IF line_iter < Len(lines)
       THEN LET caps == TASK_LINE_RE(trim(lines[line_iter + 1]))
            IN  /\ task_name' = IF is_some(caps) THEN caps.v.TaskName ELSE task_name
                /\ task_version' = IF is_some(caps) THEN caps.v.TaskVersion
                                   ELSE task_version
                /\ line_iter' = line_iter + 1
                /\ pc' = "inputs"
                /\ UNCHANGED returned
       ELSE /\ returned' = TRUE
            /\ pc' = "done"
            /\ UNCHANGED <<task_name, task_version, line_iter>>
    /\ UNCHANGED <<yaml_text, lines, task_summary, parameters,
                   yaml_name, documentation, doc_result,
                   value, base_type, is_enum, fmt_result>>

\* Rule 4, lines 193-198: the loop takes the next line; a line that matches
\* INPUT_LINE_RE becomes the arguments of parse_input_documentation, any
\* other line is passed over.
InputParameter ==
    /\ pc = "inputs"
    /\ line_iter < Len(lines)
    /\ LET caps == INPUT_LINE_RE(lines[line_iter + 1])
       IN  IF is_some(caps)
           THEN /\ yaml_name' = caps.v.InputName
                /\ documentation' = trim(caps.v.Documentation)
                /\ pc' = "doc_call"
           ELSE UNCHANGED <<yaml_name, documentation, pc>>
    /\ line_iter' = line_iter + 1
    /\ UNCHANGED <<yaml_text, lines, task_summary, task_name, task_version,
                   parameters, returned, doc_result,
                   value, base_type, is_enum, fmt_result>>

\* The body of parse_input_documentation, on its arguments.
ParseInputDocumentation ==
    /\ pc = "doc_call"
    /\ doc_result' = parse_input_documentation(yaml_name, documentation)
    /\ pc' = "doc_done"
    /\ UNCHANGED <<yaml_text, lines, line_iter, task_summary, task_name, task_version,
                   parameters, returned, yaml_name, documentation,
                   value, base_type, is_enum, fmt_result>>

\* PushParameter giving up on the first documentation that does not parse
PushParameterOrAbort ==
    /\ pc = "doc_done"
    /\ IF is_some(doc_result)
       THEN /\ parameters' = Append(parameters, doc_result.v)
            /\ pc' = "inputs"
            /\ UNCHANGED returned
       ELSE /\ returned' = TRUE
            /\ pc' = "done"
            /\ UNCHANGED parameters
    /\ UNCHANGED <<yaml_text, lines, line_iter, task_summary, task_name, task_version,
                   yaml_name, documentation, doc_result,
                   value, base_type, is_enum, fmt_result>>

\* Rule 4, lines 198-202: Some(processed_param) is pushed, None is warned
\* about and dropped; the loop goes on.
PushParameter ==
    /\ pc = "doc_done"
    /\ parameters' = IF is_some(doc_result) THEN Append(parameters, doc_result.v)
                     ELSE parameters
    /\ pc' = "inputs"
    /\ UNCHANGED <<yaml_text, lines, line_iter, task_summary, task_name, task_version,
                   returned, yaml_name, documentation, doc_result,
                   value, base_type, is_enum, fmt_result>>

\* Line 209: the loop is over, Ok(ParsedTaskInfo { .. }).
ReturnInfo ==
    /\ pc = "inputs"
    /\ line_iter >= Len(lines)
    /\ returned' = TRUE
    /\ pc' = "done"
    /\ UNCHANGED <<yaml_text, lines, line_iter, task_summary, task_name,
                   task_version, parameters, yaml_name, documentation, doc_result,
                   value, base_type, is_enum, fmt_result>>

-----------------------------------------------------------------------------
(* The inputs, and the three specifications *)

MaxLines == 5

MaxPad == 1

MaxDigits == 10

RECURSIVE Repeat(_, _)
Repeat(c, n) == IF n <= 0 THEN "" ELSE c \o Repeat(c, n - 1)

\* the lines a snippet is made of after its first line
SnippetLines ==
    {"# Install and run npm.",
     "- task: Npm@1",
     "    command: 'ci' # 'ci' | 'install'. Required. Cmd. Default: ci.",
     "    #verbose: # boolean. Optional. Log.",
     "    #bad: x # no grammar"}

\* the first line, which no rule reads: a title, or a line that looks like
\* an input
FirstLines ==
    {"# Npm v1",
     "    command: 'ci' # 'ci' | 'install'. Required. Cmd. Default: ci."}

RECURSIVE LinesAfter(_)
\* n more lines, each after a line feed
LinesAfter(n) ==
    IF n = 0 THEN {""}
    ELSE {"\n" \o l \o t : l \in SnippetLines, t \in LinesAfter(n - 1)}

\* the empty text, and the texts of 1..MaxLines lines
Snippets ==
    {""} \cup {f \o t : f \in FirstLines,
                       t \in UNION {LinesAfter(n) : n \in 0..(MaxLines - 1)}}

TypeTexts ==
    {"string", "boolean", "'ci' | 'install' | 'ci, install'", "'a'|' b'",
     "int", "filePath", "a | b", "'solo'"}

StatusTexts ==
    {"Required", "Optional", "Required when command = ci", "Optional when x",
     "Use when a = b"}

DefaultTexts ==
    {"30", "-5", "+7", "007", "2147483647", "2147483648", "-2147483648",
     "-2147483649", "1.5", "foo", "a\"b", "install", "'ci, install'", "True",
     "$(Build.ArtifactStagingDirectory)", "**/*.csproj"}
    \cup {Repeat("9", n) : n \in (MaxDigits - 1)..MaxDigits}

\* what follows the second dot: nothing, a description, a default, or both
TailTexts ==
    {"", " Timeout in seconds.", " A. B"}
    \cup {" Default: " \o d \o "." : d \in DefaultTexts}
    \cup {" Timeout in seconds. Default: " \o d : d \in DefaultTexts}

Documentations ==
    {Repeat(" ", k) \o t \o Repeat(" ", k) \o "." \o Repeat(" ", k) \o r \o "." \o tail :
        k \in 0..MaxPad, t \in TypeTexts, r \in StatusTexts, tail \in TailTexts}
    \cup {"", "no grammar", "string. Required", ". Required. x", "string.. x"}

YamlNames == {"command", "workingDir"}

FormatValues ==
    SpecialDefaults \cup DefaultTexts
    \cup {"", "'ci'", "false", "FALSE", "useNpmrc", "$(Build.SourcesDirectory)"}

BaseTypes == {"string", "bool", "int", "Command", "WorkingDir"}

Idle ==
    /\ lines = <<>>
    /\ line_iter = 0
    /\ task_summary = ""
    /\ task_name = ""
    /\ task_version = ""
    /\ parameters = <<>>
    /\ returned = FALSE

NoDocCall == yaml_name = "" /\ documentation = "" /\ doc_result = None

NoFormatCall == value = "" /\ base_type = "" /\ is_enum = FALSE /\ fmt_result = ""

\* parse_yaml_lines(yaml_text)
Init ==
    /\ pc = "start"
    /\ yaml_text \in Snippets
    /\ Idle
    /\ NoDocCall
    /\ NoFormatCall

Next ==
    \/ IgnoreFirstLine
    \/ TaskSummary
    \/ TaskDefinition
    \/ InputParameter
    \/ ParseInputDocumentation
    \/ PushParameter
    \/ ReturnInfo

Spec == Init /\ [][Next]_vars

\* parse_input_documentation(yaml_name, documentation)
InitDoc ==
    /\ pc = "doc_call"
    /\ yaml_text = ""
    /\ Idle
    /\ yaml_name \in YamlNames
    /\ documentation \in Documentations
    /\ doc_result = None
    /\ NoFormatCall

NextDoc == ParseInputDocumentation

SpecDoc == InitDoc /\ [][NextDoc]_vars

\* format_default_value(value, base_type, is_enum)
InitFormat ==
    /\ pc = "fmt_call"
    /\ yaml_text = ""
    /\ Idle
    /\ NoDocCall
    /\ value \in FormatValues
    /\ base_type \in BaseTypes
    /\ is_enum \in BOOLEAN
    /\ fmt_result = ""

FormatDefaultValue ==
    /\ pc = "fmt_call"
    /\ fmt_result' = format_default_value(value, base_type, is_enum)
    /\ pc' = "fmt_done"
    /\ UNCHANGED <<yaml_text, lines, line_iter, task_summary, task_name, task_version,
                   parameters, returned, yaml_name, documentation, doc_result,
                   value, base_type, is_enum>>

NextFormat == FormatDefaultValue

SpecFormat == InitFormat /\ [][NextFormat]_vars

-----------------------------------------------------------------------------
(* What the properties are stated in: the fields the grammar read from the *)
(* documentation, and the descriptor that came back.                       *)

Accepted == pc = "doc_done" /\ is_some(doc_result)

Descriptor == doc_result.v

TypeOrOptions == GroupText(DOC_METADATA_RE(documentation).v.g1)

RequiredStatus == GroupText(DOC_METADATA_RE(documentation).v.g2)

CapturedDefault == default_value_str(DOC_METADATA_RE(documentation).v)

\* neither exactly "Required" nor conditional
OptionalLike(status) == status # "Required" /\ ~starts_with(status, "Required when")

DigitValue(c) == CHOOSE d \in 0..9 : Char(Digits, d + 1) = c

\* an optional sign, then one decimal digit or more
IsIntegerText(s) ==
    LET body == IF Char(s, 1) \in {"+", "-"} THEN From(s, 2) ELSE s
    IN  body # "" /\ \A i \in 1..Len(body) : Char(body, i) \in DigitSet

\* a and b are digit texts of one length, and a is at most b
DigitsAtMost(a, b) ==
    \/ a = b
    \/ \E i \in 1..Len(a) :
          /\ Sub(a, 1, i - 1) = Sub(b, 1, i - 1)
          /\ DigitValue(Char(a, i)) < DigitValue(Char(b, i))

\* the integer text s denotes a value of -2^31 .. 2^31 - 1
InI32Range(s) ==
    LET negative == Char(s, 1) = "-"
        body == IF Char(s, 1) \in {"+", "-"} THEN From(s, 2) ELSE s
        significant == From(body, SkipChar(body, "0", 1))
        limit == IF negative THEN "2147483648" ELSE "2147483647"
    IN  \/ Len(significant) < Len(limit)
        \/ Len(significant) = Len(limit) /\ DigitsAtMost(significant, limit)

\* the text between double quotes, its own double quotes escaped
Quoted(s) == "\"" \o replace(s, "\"", "\\\"") \o "\""

-----------------------------------------------------------------------------
(* C1, C10: the nullability rule *)

\* C1: an accepted documentation string gives is_nullable exactly when no
\* default was captured and the status is optional-like (anything but
\* "Required" and "Required when ..."), or conditional, or the base type is
\* string.  The code takes only the exact status "Optional" for optional.
C1_NullableRule ==
    Accepted =>
        (Descriptor.is_nullable <=>
            /\ is_none(CapturedDefault)
            /\ \/ OptionalLike(RequiredStatus)
               \/ starts_with(RequiredStatus, "Required when")
               \/ Descriptor.base_csharp_type = "string")

\* C10: a status that is neither "Required" nor "Required when ..." makes a
\* parameter without a default nullable, whatever its base type.
C10_OptionalLikeIsNullable ==
    Accepted /\ OptionalLike(RequiredStatus) /\ is_none(CapturedDefault)
        => Descriptor.is_nullable

-----------------------------------------------------------------------------
(* C2: int sniffing *)

IntSniffing(IsInt(_)) ==
    /\ Accepted /\ TypeOrOptions = "string" /\ is_some(CapturedDefault) =>
          LET d == CapturedDefault.v
          IN  /\ Descriptor.base_csharp_type = "int" <=> IsInt(d)
              /\ IsInt(d) =>
                    /\ ~Descriptor.is_nullable
                    /\ Descriptor.getter_default_arg = Some(d)
              /\ ~IsInt(d) =>
                    /\ Descriptor.base_csharp_type = "string"
                    /\ Descriptor.getter_default_arg = Some(Quoted(d))
    /\ Accepted /\ is_none(CapturedDefault) => Descriptor.base_csharp_type # "int"

IsAnyInteger(d) == IsIntegerText(d)

IsI32Integer(d) == IsIntegerText(d) /\ InI32Range(d)

\* C2 as claimed: a declared "string" with a default has base type int
\* exactly when the default is a base-10 integer, of any size.
C2_IntSniffingAnyInteger == IntSniffing(IsAnyInteger)

\* C2 as amended: a declared "string" with a default has base type int
\* exactly when the default is a base-10 integer of the signed 32-bit range;
\* then the parameter is non-nullable and the literal is the raw text.  Any
\* other default leaves the base type string and the literal is the quoted
\* text; without a default the base type is never int.
C2_IntSniffingI32 == IntSniffing(IsI32Integer)

C2_Witness ==
    /\ Accepted
    /\ TypeOrOptions = "string"
    /\ CapturedDefault = Some("30")
    /\ Descriptor.base_csharp_type = "int"
    /\ Descriptor.getter_default_arg = Some("30")

-----------------------------------------------------------------------------
(* C3: type classification *)

BarPositions(t) == {i \in 1..Len(t) : Char(t, i) = "|"}

\* the n-th piece of t between its bars
Token(t, n) ==
    LET bars == BarPositions(t) \cup {0, Len(t) + 1}
        from == CHOOSE i \in bars : Cardinality({j \in bars : j < i}) = n - 1
        to == CHOOSE i \in bars : Cardinality({j \in bars : j < i}) = n
    IN  Sub(t, from + 1, to - 1)

\* C3: the base type is the enum named after the display name exactly when
\* the type text holds a bar and starts with a quote, and exactly then are
\* there enum options: the pieces between the bars, in order, trimmed and
\* without quotes.  Otherwise boolean gives bool, string gives string or
\* int, and anything else gives string.
C3_TypeClassification ==
    Accepted =>
        LET t == TypeOrOptions
            enum == BarPositions(t) # {} /\ Char(t, 1) = "'"
        IN  /\ is_some(Descriptor.enum_options) <=> enum
            /\ is_some(Descriptor.enum_options)
                   <=> Descriptor.base_csharp_type = to_pascal_case(yaml_name)
            /\ enum =>
                   LET options == Descriptor.enum_options.v
                   IN  /\ Len(options) = Cardinality(BarPositions(t)) + 1
                       /\ \A n \in 1..Len(options) :
                              options[n] = replace(trim(Token(t, n)), "'", "")
            /\ ~enum /\ t = "boolean" => Descriptor.base_csharp_type = "bool"
            /\ ~enum /\ t = "string" => Descriptor.base_csharp_type \in {"string", "int"}
            /\ ~enum /\ t \notin {"boolean", "string"}
                   => Descriptor.base_csharp_type = "string"

C3_Witness ==
    /\ Accepted
    /\ yaml_name = "command"
    /\ TypeOrOptions = "'ci' | 'install' | 'ci, install'"
    /\ Descriptor.base_csharp_type = "Command"
    /\ Descriptor.enum_options = Some(<<"ci", "install", "ci, install">>)

-----------------------------------------------------------------------------
(* C9: the default literal *)

\* C9: a descriptor carries a default literal only when it is not nullable
\* and a default was captured; and a captured default makes the descriptor
\* non-nullable, with a literal, its csharp_type the bare base type.
C9_DefaultLiteral ==
    Accepted =>
        /\ is_some(Descriptor.getter_default_arg)
               => ~Descriptor.is_nullable /\ is_some(CapturedDefault)
        /\ is_some(CapturedDefault) =>
               /\ ~Descriptor.is_nullable
               /\ is_some(Descriptor.getter_default_arg)
               /\ Descriptor.csharp_type = Descriptor.base_csharp_type
               /\ Char(Descriptor.csharp_type, Len(Descriptor.csharp_type)) # "?"

C9_Witness ==
    /\ Accepted
    /\ RequiredStatus = "Optional"
    /\ CapturedDefault = Some("foo")
    /\ Descriptor.getter_default_arg = Some("\"foo\"")
    /\ Descriptor.csharp_type = "string"

-----------------------------------------------------------------------------
(* C7, C8: format_default_value *)

Formatted == pc = "fmt_done"

\* C7: each of the four special values comes back as that text between
\* double quotes, for every base type and either value of the enum flag.
C7_SpecialDefaultsFirst ==
    Formatted /\ value \in SpecialDefaults => fmt_result = "\"" \o value \o "\""

C7_Witness ==
    /\ Formatted
    /\ value = "$(BuildConfiguration)"
    /\ base_type = "bool"
    /\ is_enum
    /\ fmt_result = "\"$(BuildConfiguration)\""

\* s in lower case: of the length of s, each character the lower case form
\* of the one of s
IsLowerCaseOf(r, s) ==
    /\ Len(r) = Len(s)
    /\ \A i \in 1..Len(s) :
          LET c == Char(s, i)
          IN  Char(r, i) = IF c \in UpperSet
                           THEN Char(LowerLetters, CHOOSE k \in 1..Len(UpperLetters) :
                                                       Char(UpperLetters, k) = c)
                           ELSE c

\* s without the single quotes around it
Unquoted(s) ==
    LET inner == {i \in 1..Len(s) : Char(s, i) # "'"}
    IN  IF inner = {} THEN ""
        ELSE Sub(s, CHOOSE i \in inner : \A j \in inner : i <= j,
                    CHOOSE i \in inner : \A j \in inner : j <= i)

\* C8: outside the table the first rule that applies decides: string gives
\* the quoted, escaped text; bool gives the text in lower case (true and
\* false for a boolean written in any case); then the enum flag gives
\* <base type>.<Member>; anything else gives the raw text.
C8_FormatRules ==
    Formatted /\ value \notin SpecialDefaults =>
        IF base_type = "string" THEN fmt_result = Quoted(value)
        ELSE IF base_type = "bool"
        THEN /\ IsLowerCaseOf(fmt_result, value)
             /\ value \in {"true", "True", "TRUE", "false", "False", "FALSE"}
                    => fmt_result \in {"true", "false"}
        ELSE IF is_enum
        THEN fmt_result = base_type \o "." \o to_pascal_case(Unquoted(value))
        ELSE fmt_result = value

C8_Witness ==
    /\ Formatted
    /\ value = "'ci, install'"
    /\ base_type = "Command"
    /\ is_enum
    /\ fmt_result = "Command.CiInstall"

-----------------------------------------------------------------------------
(* C4, C5, C6: parse_yaml_lines *)

\* Indexes are those of the source: the line at index i is lines[i + 1].
LineAt(i) == lines[i + 1]

IsInputDeclaration(i) == is_some(INPUT_LINE_RE(LineAt(i)))

DescriptorOf(i) ==
    LET caps == INPUT_LINE_RE(LineAt(i)).v
    IN  parse_input_documentation(caps.InputName, trim(caps.Documentation))

\* the lines from index 3 on that declare an input whose documentation parses
Contributing ==
    {i \in 3..(Len(lines) - 1) : IsInputDeclaration(i) /\ is_some(DescriptorOf(i))}

ParametersAsExpected ==
    LET contributing == Contributing
        \* the n-th contributing index, in line order
        nth(n) == CHOOSE i \in contributing :
                      Cardinality({j \in contributing : j < i}) = n - 1
    IN  /\ Len(parameters) = Cardinality(contributing)
        /\ \A n \in 1..Len(parameters) : parameters[n] = DescriptorOf(nth(n)).v

\* the line at index i is a comment line: # after its leading whitespace
IsCommentLine(i) == Char(LineAt(i), SkipWs(LineAt(i), 1)) = "#"

TextAfterMarker(i) == trim(From(LineAt(i), SkipWs(LineAt(i), 1) + 1))

IsTaskLine(i) == is_some(TASK_LINE_RE(trim(LineAt(i))))

\* C4: for a snippet of three lines or more, the parameters returned are
\* the descriptors of the contributing lines, in line order: a line whose
\* documentation fails adds nothing and stops nothing, the lines at index
\* 0, 1 and 2 add nothing.
C4_ParametersInSourceOrder ==
    returned /\ Len(lines) >= 3 => ParametersAsExpected

\* a header line that looks like an input, then a line whose documentation
\* fails, then one that is taken
C4_Witness ==
    /\ returned
    /\ Len(lines) = 5
    /\ IsInputDeclaration(2) /\ is_some(DescriptorOf(2))
    /\ IsInputDeclaration(3) /\ is_none(DescriptorOf(3))
    /\ Len(parameters) = 1
    /\ parameters[1].yaml_name = "verbose"

\* C5: a snippet of fewer than three lines returns no parameter and the
\* placeholder name and version; with fewer than two lines the summary is
\* the placeholder too, with two it is the text after the comment marker of
\* line 1.
C5_ShortSnippet ==
    /\ pc = "done" => returned
    /\ returned /\ Len(lines) < 3 =>
          /\ parameters = <<>>
          /\ task_name = "UnknownTask"
          /\ task_version = "0"
          /\ Len(lines) < 2 => task_summary = "N/A"
          /\ Len(lines) = 2 /\ IsCommentLine(1) => task_summary = TextAfterMarker(1)
          /\ Len(lines) = 2 /\ ~IsCommentLine(1) => task_summary = "N/A"

C5_Witness ==
    /\ returned
    /\ Len(lines) = 2
    /\ LineAt(1) = "# Install and run npm."
    /\ task_summary = "Install and run npm."
    /\ task_name = "UnknownTask"
    /\ parameters = <<>>

\* C6: with three lines or more, a line 1 that is no comment leaves the
\* summary "N/A", a line 2 that is no task line leaves the name and the
\* version "UnknownTask" and "0"; either way the function returns, with the
\* parameters of every contributing line from index 3 on.
C6_MalformedHeader ==
    returned /\ Len(lines) >= 3 =>
        /\ ~IsCommentLine(1) => task_summary = "N/A"
        /\ ~IsTaskLine(2) => task_name = "UnknownTask" /\ task_version = "0"
        /\ ~IsCommentLine(1) \/ ~IsTaskLine(2) => ParametersAsExpected

C6_Witness ==
    /\ returned
    /\ Len(lines) = 5
    /\ ~IsCommentLine(1)
    /\ ~IsTaskLine(2)
    /\ task_summary = "N/A"
    /\ task_name = "UnknownTask"
    /\ Len(parameters) = 2
    /\ parameters[1].yaml_name # parameters[2].yaml_name

-----------------------------------------------------------------------------
(* C11: the declared names of a result *)

\* the declared name of the n-th parameter of the result
DeclaredName(n) == parameters[n].yaml_name

DeclaredNamesNonEmpty == \A n \in 1..Len(parameters) : DeclaredName(n) # ""

DeclaredNamesDistinct ==
    \A m, n \in 1..Len(parameters) : m # n => DeclaredName(m) # DeclaredName(n)

\* C11: in every result of parse_yaml_lines the declared names of the
\* parameters are non-empty and pairwise distinct, whatever the snippet,
\* also when two input lines declare the same identifier.  The loop of
\* rule 4 pushes every descriptor it gets and compares no name with those
\* already pushed: two contributing lines that declare "command" give two
\* parameters named "command".
C11_DeclaredNamesDistinct ==
    returned => DeclaredNamesNonEmpty /\ DeclaredNamesDistinct

====
